---- MODULE Spec2Model ----
(***************************************************************************)
(* A model of the jump (scie) packager:                                    *)
(*   - the trailer locator  end_of_zip / load          (src/src/jmp.rs)    *)
(*   - the ArchiveType string codec                    (src/src/jmp.rs)    *)
(*   - the directory packer create_archive/create_zip  (jump/src/pack.rs)  *)
(* Each subsystem has its own specification over the shared variables:     *)
(*   Spec      the trailer locator                                         *)
(*   SpecCodec the ArchiveType codec                                       *)
(*   SpecPack  the archive packer over a small file system                 *)
(***************************************************************************)
EXTENDS Integers, Sequences, FiniteSets, TLC

VARIABLES
    \* ---- trailer locator ----
    data_runs,             \* the byte buffer handed to end_of_zip / load, run-length
                           \* encoded: a sequence of <<byte, count>>
    shape,                 \* how the buffer was built (lengths of its parts)
    maximum_trailer_size,  \* the argument of end_of_zip
    pc,                    \* "input" before the call, "done" after it
    zres,                  \* what end_of_zip(data, maximum_trailer_size) did
    lres,                  \* what load(data) did
    \* ---- ArchiveType codec ----
    codec,
    \* ---- archive packer ----
    fs,                    \* the file system: path -> node
    last,                  \* the last create_archive call and what it did
    ncalls                 \* the create_archive calls made so far

locVars   == <<data_runs, shape, maximum_trailer_size, pc, zres, lres>>
codecVars == <<codec>>
packVars  == <<fs, last, ncalls>>
vars      == <<data_runs, shape, maximum_trailer_size, pc, zres, lres, codec, fs, last, ncalls>>

(***************************************************************************)
(* Results.  A Rust call returns Ok(v) or Err(e), or it panics (unwinds    *)
(* or aborts: either way no value is returned to the caller).              *)
(***************************************************************************)
Ok(v)      == [kind |-> "Ok", value |-> v]
Err(e)     == [kind |-> "Err", value |-> e]
Panic(why) == [kind |-> "panic", value |-> why]
NotCalled  == [kind |-> "none", value |-> "none"]

Min(S) == CHOOSE x \in S : \A y \in S : x <= y
Max(S) == CHOOSE x \in S : \A y \in S : x >= y

(***************************************************************************)
(* Byte buffers.  data: &[u8] is a sequence of bytes; Rust's data[i] is    *)
(* data[i + 1] here.  Buffers are kept run-length encoded in the state and *)
(* expanded to the byte sequence the code reads.                           *)
(***************************************************************************)
RECURSIVE Bytes(_)
Bytes(runs) ==
    IF runs = <<>> THEN <<>>
    ELSE [i \in 1..Head(runs)[2] |-> Head(runs)[1]] \o Bytes(Tail(runs))

RECURSIVE RunsLen(_)
RunsLen(runs) == IF runs = <<>> THEN 0 ELSE Head(runs)[2] + RunsLen(Tail(runs))

Run(b, n) == << <<b, n>> >>

\* data[i] of the Rust slice (0-based)
At(data, i) == data[i + 1]

(***************************************************************************)
(* end_of_zip                                                              *)
(***************************************************************************)
\* EOCD_SIGNATURE: the tuple the reversed 4-byte windows are compared with
EOCD_SIGNATURE == <<6, 5, 75, 80>>

\* structure!("<HHHHIIH").size(): 4 * 2 + 2 * 4 + 2
eocd_size == 18

MAX_COMMENT == 65535

MAXIMUM_CONFIG_SIZE == 65535

maximum_eocd_size == eocd_size + MAX_COMMENT

\* the window of a record counted with its 4 signature bytes
max_scan_with_signature(max_trailer) == 4 + maximum_eocd_size + max_trailer

max_scan(max_trailer) == maximum_eocd_size + max_trailer

\* data.iter().rev().take(max_scan): the number of bytes it yields
taken(data, max_trailer) ==
    IF max_scan(max_trailer) < Len(data) THEN max_scan(max_trailer) ELSE Len(data)

\* EOCD_SIGNATURE == chunk, for the i-th (0-based) window of
\* tuple_windows::<(_, _, _, _)>() over the reversed bytes: the window is
\* (data[len - 1 - i], data[len - 2 - i], data[len - 3 - i], data[len - 4 - i]),
\* compared with the signature element by element
window_matches(data, i) ==
    /\ At(data, Len(data) - 1 - i) = EOCD_SIGNATURE[1]
    /\ At(data, Len(data) - 2 - i) = EOCD_SIGNATURE[2]
    /\ At(data, Len(data) - 3 - i) = EOCD_SIGNATURE[3]
    /\ At(data, Len(data) - 4 - i) = EOCD_SIGNATURE[4]

\* the windows .position(|chunk| EOCD_SIGNATURE == chunk) can stop at
matching_windows(data, max_trailer) ==
    { i \in 0..(taken(data, max_trailer) - 4) : window_matches(data, i) }

NotFoundMsg == "Failed to find application zip end of central directory record"

\* "<H": a little-endian u16
unpack_H(lo, hi) == lo + 256 * hi

\* eocd_struct.unpack(&data[eocd_start..eocd_end]): the 7th field (the slice is in
\* range and eocd_size bytes long, so unpack itself cannot fail)
zip_comment_size(data, eocd_start) ==
    unpack_H(At(data, eocd_start + 16), At(data, eocd_start + 17))

\* data.len() - offset_from_eof
eocd_start_of(data, offset_from_eof) == Len(data) - offset_from_eof

\* position over the windows taken from the front of the buffer: the match
\* furthest from the end
position_from_front(hits) == Max(hits)

\* .position(..): the index of the first window that matches, counted from the
\* end of the buffer
position(hits) == Min(hits)

end_of_zip(data, max_trailer) ==
    LET hits == matching_windows(data, max_trailer) IN
    IF hits = {} THEN Err(NotFoundMsg)
    ELSE
        LET offset_from_eof == position(hits)
            eocd_start == eocd_start_of(data, offset_from_eof)
            eocd_end == eocd_start + eocd_size
        IN  IF eocd_end > Len(data)
            THEN Panic("data[eocd_start..eocd_end]: range end index out of range")
            ELSE Ok(eocd_end + zip_comment_size(data, eocd_start))

(***************************************************************************)
(* load: the manifest is parsed by serde_json, which returns a Config or   *)
(* an error; the model records the slice it was handed.                    *)
(***************************************************************************)
LoadSliceOutOfRange == "data[end_of_zip..]: range start index out of range"

load(data) ==
    LET e == end_of_zip(data, MAXIMUM_CONFIG_SIZE) IN
    IF e.kind # "Ok" THEN e
    ELSE IF e.value > Len(data)
         THEN Panic(LoadSliceOutOfRange)
         ELSE [kind |-> "from_slice", value |-> e.value]

(***************************************************************************)
(* The buffers the locator is run on.                                      *)
(***************************************************************************)
MaxTrailerSize == 1      \* maximum_trailer_size ranges over 0..MaxTrailerSize
MaxExcess == 1           \* the appended blob is up to MaxExcess bytes longer than that
MaxSmallComment == 1     \* small comments: 0..MaxSmallComment bytes (and 22 more)
CommentSlack == 4        \* large comments: the last CommentSlack + 1 sizes up to 0xFFFF
MaxTruncated == 19       \* bytes kept after a signature in a truncated buffer

SignatureRuns == << <<80, 1>>, <<75, 1>>, <<5, 1>>, <<6, 1>> >>

\* a u16 as "<H" stores it
pack_H(v) == << <<v % 256, 1>>, <<v \div 256, 1>> >>

\* the fixed part of an end of central directory record: signature, six fields
\* (16 bytes, all `fill`), comment length
EocdRuns(fill, declared) == SignatureRuns \o Run(fill, 16) \o pack_H(declared)

\* what precedes the record: nothing, or an older record with a 2-byte comment
\* (a zip stored inside the zip)
PreRuns(pre) ==
    IF pre = "stale" THEN Run(1, 3) \o EocdRuns(0, 2) \o Run(33, 2) ELSE <<>>

CommentRuns(c, ckind) ==
    CASE ckind = "sig_first" -> SignatureRuns \o Run(32, c - 4)
      [] ckind = "sig_last"  -> Run(32, c - 4) \o SignatureRuns
      [] OTHER               -> Run(32, c)

ManifestRuns(n, mkind) ==
    IF mkind = "sig_first" THEN SignatureRuns \o Run(123, n - 4) ELSE Run(123, n)

CommentSizes ==
    (0..MaxSmallComment) \cup { 4 + eocd_size + k : k \in 0..MaxSmallComment }
        \cup ((MAX_COMMENT - CommentSlack)..MAX_COMMENT)

Kinds(len) ==
    {"plain"} \cup (IF len >= 4 THEN {"sig_last"} ELSE {})
              \cup (IF len >= 4 + eocd_size THEN {"sig_first"} ELSE {})

\* [zip bytes ending in an EOCD record with a c-byte comment][n-byte appended blob];
\* the record declares `declared` comment bytes (= c in a well-formed zip)
ZipShape(pre, fill, c, ckind, declared, n, mkind) ==
    [form |-> "zip+blob", pre |-> pre, fill |-> fill, c |-> c, ckind |-> ckind,
     declared |-> declared, n |-> n, mkind |-> mkind, follow |-> eocd_size + c + n]

\* a buffer cut `follow` bytes after the signature
CutShape(pre, fill, follow) ==
    [form |-> "cut", pre |-> pre, fill |-> fill, c |-> 0, ckind |-> "plain",
     declared |-> 0, n |-> 0, mkind |-> "plain", follow |-> follow]

\* a buffer without the signature (three of its four bytes at most)
NoSigShape(pre, n) ==
    [form |-> "nosig", pre |-> pre, fill |-> 0, c |-> 0, ckind |-> "plain",
     declared |-> 0, n |-> n, mkind |-> "plain", follow |-> 0]

RunsOf(sh) ==
    CASE sh.form = "zip+blob" ->
            PreRuns(sh.pre) \o EocdRuns(sh.fill, sh.declared)
                \o CommentRuns(sh.c, sh.ckind) \o ManifestRuns(sh.n, sh.mkind)
      [] sh.form = "cut" ->
            PreRuns(sh.pre) \o SignatureRuns \o Run(sh.fill, sh.follow)
      [] OTHER ->
            Run(1, 3) \o SubSeq(SignatureRuns, 1, 3) \o Run(123, sh.n)

\* how the zip bytes vary: no prefix and zero fields, or an older record before
\* the real one and all-ones fields
Variants == { <<"none", 0>>, <<"stale", 255>> }

WellFormed(m) ==
    { ZipShape(v[1], v[2], c, ckind, c, n, "plain") :
        v \in Variants, c \in CommentSizes,
        ckind \in {"plain", "sig_first", "sig_last"}, n \in 0..(m + MaxExcess) }

\* an appended blob that starts with the signature bytes
SignedBlob ==
    { ZipShape(v[1], v[2], c, "plain", c, n, "sig_first") :
        v \in Variants, c \in 0..MaxSmallComment,
        n \in { 4 + k : k \in 0..MaxExcess } \cup { 4 + eocd_size + k : k \in 0..MaxExcess } }

\* a record whose comment length field is not the length of its comment
Misdeclared(m) ==
    { ZipShape("none", 0, c, "plain", d, n, "plain") :
        c \in 0..MaxSmallComment, d \in 0..(MaxSmallComment + 1), n \in 0..m }

Truncated ==
    { CutShape(v[1], v[2], follow) : v \in Variants, follow \in 0..MaxTruncated }

NoSignature == { NoSigShape("none", n) : n \in 0..MaxExcess }

ShapeOk(sh) ==
    /\ sh.ckind \in Kinds(sh.c)
    /\ sh.mkind \in Kinds(sh.n) \ {"sig_last"}

Shapes(m) ==
    { sh \in WellFormed(m) \cup SignedBlob \cup Misdeclared(m) \cup Truncated \cup NoSignature : ShapeOk(sh) }

InitLocator ==
    /\ maximum_trailer_size \in 0..MaxTrailerSize
    /\ shape \in Shapes(maximum_trailer_size)
    /\ data_runs = RunsOf(shape)
    /\ pc = "input"
    /\ zres = NotCalled
    /\ lres = NotCalled

IdleLocator ==
    /\ maximum_trailer_size = 0
    /\ shape = NoSigShape("none", 0)
    /\ data_runs = <<>>
    /\ pc = "idle"
    /\ zres = NotCalled
    /\ lres = NotCalled

\* a caller runs end_of_zip(data, maximum_trailer_size)
EndOfZip ==
    /\ pc = "input"
    /\ zres' = end_of_zip(Bytes(data_runs), maximum_trailer_size)
    /\ pc' = "done"
    /\ UNCHANGED <<data_runs, shape, maximum_trailer_size, lres, codec, fs, last, ncalls>>

\* a caller runs load(data)
Load ==
    /\ pc = "input"
    /\ lres' = load(Bytes(data_runs))
    /\ pc' = "done"
    /\ UNCHANGED <<data_runs, shape, maximum_trailer_size, zres, codec, fs, last, ncalls>>

(***************************************************************************)
(* Properties of the trailer locator                                       *)
(***************************************************************************)
\* the bytes 50 4B 05 06 start at (0-based) index s of data
SignatureAt(data, s) ==
    /\ At(data, s) = 80
    /\ At(data, s + 1) = 75
    /\ At(data, s + 2) = 5
    /\ At(data, s + 3) = 6

\* the starts of the signature's occurrences that lie inside the last `window`
\* bytes of data
OccurrencesIn(data, window) ==
    LET from == IF window < Len(data) THEN Len(data) - window ELSE 0
    IN  { s \in from..(Len(data) - 4) : SignatureAt(data, s) }

\* len(zip bytes) of a [zip bytes][appended blob] buffer
ZipLen(sh) == RunsLen(PreRuns(sh.pre)) + 22 + sh.c

\* no signature run after the record's own: the comment and the blob are plain
PlainAfterEocd(sh) == sh.ckind = "plain" /\ sh.mkind = "plain"

Scanned == pc = "done" /\ zres.kind # "none"
Loaded  == pc = "done" /\ lres.kind # "none"

\* C1: when the signature occurs inside the scanned window (the last max_scan
\* bytes) and at least 18 bytes follow the occurrence closest to the end,
\* end_of_zip returns s + 22 + c: s the start of that occurrence, c the
\* little-endian u16 at data[s + 20], data[s + 21].  Nothing else (earlier
\* occurrences, the six other fields) enters the result.
C1_ClosestSignatureDecides ==
    Scanned =>
        LET data == Bytes(data_runs)
            occ == OccurrencesIn(data, max_scan(maximum_trailer_size))
        IN  occ # {} =>
                LET s == Max(occ) IN
                Len(data) - (s + 4) >= 18 =>
                    /\ zres.kind = "Ok"
                    /\ zres.value = s + 22 + At(data, s + 20) + 256 * At(data, s + 21)

\* C1 witness: a buffer longer than the window, holding an older record too, with
\* all-ones fields, whose record starts exactly at the window's first byte
C1_Witness ==
    /\ Scanned
    /\ shape.form = "zip+blob" /\ shape.pre = "stale" /\ shape.fill = 255
    /\ shape.ckind = "plain"
    /\ RunsLen(data_runs) > max_scan(maximum_trailer_size)
    /\ 22 + shape.c + shape.n = max_scan(maximum_trailer_size)
    /\ zres.kind = "Ok"
    /\ zres.value = ZipLen(shape)

\* C2: on [zip bytes ending in an EOCD record with a c-byte comment][n-byte
\* manifest], 0 <= c <= 65535, 0 <= n <= maximum_trailer_size, the signature in
\* neither the comment nor the manifest, end_of_zip returns Ok(len(zip bytes)).
C2_WindowCoversEveryZip ==
    ( /\ Scanned
      /\ shape.form = "zip+blob" /\ shape.declared = shape.c
      /\ shape.n <= maximum_trailer_size
      /\ PlainAfterEocd(shape) )
    => (zres.kind = "Ok" /\ zres.value = ZipLen(shape))

C4_NeverAborts ==
    Scanned =>
        /\ zres.kind \in {"Ok", "Err"}
        /\ (shape.form = "cut" /\ shape.follow < 18) => zres.kind = "Err"

\* C10: an offset end_of_zip returns is at most len(data), so that load's slice
\* data[offset..] is in range (load goes on to return a Config or an error).
C10_OffsetInRange ==
    /\ (Scanned /\ zres.kind = "Ok") => zres.value <= RunsLen(data_runs)
    /\ (Loaded /\ lres.kind = "panic") => lres.value # LoadSliceOutOfRange


(***************************************************************************)
(* The ArchiveType string codec                                            *)
(***************************************************************************)
Compression == {"Bzip2", "Gzip", "Lzma", "Xz", "Zlib", "Zstd"}

Zip == [type |-> "Zip", compression |-> "-"]
Tar == [type |-> "Tar", compression |-> "-"]
CompressedTar(c) == [type |-> "CompressedTar", compression |-> c]

ArchiveType == {Zip, Tar} \cup { CompressedTar(c) : c \in Compression }

\* impl Serialize for ArchiveType, with tar.xz written in the short style of the
\* other aliases
serialize_txz(x) ==
    CASE x = Zip -> "zip"
      [] x = Tar -> "tar"
      [] x = CompressedTar("Bzip2") -> "tar.bz2"
      [] x = CompressedTar("Gzip")  -> "tar.gz"
      [] x = CompressedTar("Lzma")  -> "tar.lzma"
      [] x = CompressedTar("Xz")    -> "txz"
      [] x = CompressedTar("Zlib")  -> "tar.Z"
      [] x = CompressedTar("Zstd")  -> "tar.zst"

\* impl Serialize for ArchiveType: serializer.serialize_str(..)
serialize(x) ==
    CASE x = Zip -> "zip"
      [] x = Tar -> "tar"
      [] x = CompressedTar("Bzip2") -> "tar.bz2"
      [] x = CompressedTar("Gzip")  -> "tar.gz"
      [] x = CompressedTar("Lzma")  -> "tar.lzma"
      [] x = CompressedTar("Xz")    -> "tar.xz"
      [] x = CompressedTar("Zlib")  -> "tar.Z"
      [] x = CompressedTar("Zstd")  -> "tar.zst"

\* ArchiveTypeVisitor::visit_str
visit_str(value) ==
    CASE value = "zip" -> Ok(Zip)
      [] value = "tar" -> Ok(Tar)
      [] value \in {"tbz2", "tar.bz2"} -> Ok(CompressedTar("Bzip2"))
      [] value \in {"tgz", "tar.gz"}   -> Ok(CompressedTar("Gzip"))
      [] value \in {"tlz", "tar.lzma"} -> Ok(CompressedTar("Lzma"))
      [] value = "tar.xz"              -> Ok(CompressedTar("Xz"))
      [] value = "tar.Z"               -> Ok(CompressedTar("Zlib"))
      [] value \in {"tzst", "tar.zst"} -> Ok(CompressedTar("Zstd"))
      [] OTHER -> Err("invalid value: expected one of: zip, tar, tbz2, tar.bz2, tgz, tar.gz, tlz, tar.lzma, tar.xz, tar.Z, tzst or tar.zst")

\* impl Deserialize for ArchiveType: deserializer.deserialize_string(ArchiveTypeVisitor)
deserialize(text) == visit_str(text)

MaxRoundTrips == 3    \* conversions made on one value: 2 * MaxRoundTrips

AcceptedTokens ==
    {"zip", "tar", "tbz2", "tar.bz2", "tgz", "tar.gz", "tlz", "tar.lzma",
     "tar.xz", "tar.Z", "tzst", "tar.zst"}

\* strings near the accepted ones that the visitor must reject
RejectedTokens == {"rar", "ZIP", "tar.z", "txz", "tar.zstd", ""}

\* codec.text: the last serialized form ("-": none yet); codec.value: the last
\* deserialization result; codec.ops: the conversions made so far, oldest first
InitCodec ==
    \/ \E x \in ArchiveType :
        codec = [from |-> "value", first_value |-> x, first_text |-> "-",
                 text |-> "-", value |-> Ok(x), ops |-> <<>>]
    \/ \E a \in AcceptedTokens \cup RejectedTokens :
        codec = [from |-> "text", first_value |-> Zip, first_text |-> a,
                 text |-> a, value |-> NotCalled, ops |-> <<>>]

IdleCodec ==
    codec = [from |-> "idle", first_value |-> Zip, first_text |-> "-",
             text |-> "-", value |-> NotCalled, ops |-> <<>>]

LastOp == IF codec.ops = <<>> THEN "-" ELSE codec.ops[Len(codec.ops)]

\* serde_json::to_string(&archive_type)
Serialize ==
    /\ codec.from \in {"value", "text"}
    /\ Len(codec.ops) < 2 * MaxRoundTrips
    /\ codec.value.kind = "Ok"
    /\ LastOp # "serialize"
    /\ codec' = [codec EXCEPT !.text = serialize(codec.value.value),
                              !.ops = Append(@, "serialize")]
    /\ UNCHANGED <<data_runs, shape, maximum_trailer_size, pc, zres, lres, fs, last, ncalls>>

\* serde_json::from_str::<ArchiveType>(text)
Deserialize ==
    /\ codec.from \in {"value", "text"}
    /\ Len(codec.ops) < 2 * MaxRoundTrips
    /\ codec.text # "-"
    /\ LastOp # "deserialize"
    /\ codec' = [codec EXCEPT !.value = deserialize(codec.text),
                              !.ops = Append(@, "deserialize")]
    /\ UNCHANGED <<data_runs, shape, maximum_trailer_size, pc, zres, lres, fs, last, ncalls>>

\* the canonical token of each accepted token (the alias table of the manifest
\* schema)
CanonicalOf(a) ==
    CASE a = "tbz2" -> "tar.bz2"
      [] a = "tgz"  -> "tar.gz"
      [] a = "tlz"  -> "tar.lzma"
      [] a = "tzst" -> "tar.zst"
      [] OTHER -> a

\* C6: deserialize(serialize(x)) = x for each of the 8 variants, also after
\* further round trips; and for each of the 12 accepted tokens a,
\* serialize(deserialize(a)) is the canonical long form of a, which every further
\* deserialize-serialize round trip gives back.
C6_CodecRoundTrip ==
    /\ (codec.from = "value" /\ LastOp = "deserialize") =>
            (codec.value.kind = "Ok" /\ codec.value.value = codec.first_value)
    /\ (codec.from = "text" /\ codec.first_text \in AcceptedTokens /\ codec.ops # <<>>) =>
            /\ codec.value.kind = "Ok"
            /\ LastOp = "serialize" => codec.text = CanonicalOf(codec.first_text)
            /\ (LastOp = "deserialize" /\ Len(codec.ops) > 1) =>
                    serialize(codec.value.value) = CanonicalOf(codec.first_text)

\* C6 witness: the alias tgz after two full round trips reads tar.gz
C6_Witness ==
    /\ codec.from = "text" /\ codec.first_text = "tgz"
    /\ Len(codec.ops) = 4 /\ codec.text = "tar.gz"
    /\ codec.value.kind = "Ok" /\ codec.value.value = CompressedTar("Gzip")

NextCodec == Serialize \/ Deserialize

(***************************************************************************)
(* The file system the packer works on.  A file name is the sequence of    *)
(* its dot-separated parts (<<"v1", "0">> is v1.0), a path the sequence of *)
(* its components from the root.                                           *)
(***************************************************************************)
DirNode      == [kind |-> "dir", text |-> "", target |-> <<>>, entries |-> <<>>,
                 mode |-> 493, source |-> <<>>]
FileNode(t)  == [kind |-> "file", text |-> t, target |-> <<>>, entries |-> <<>>,
                 mode |-> 420, source |-> <<>>]
ExecNode(t)  == [kind |-> "file", text |-> t, target |-> <<>>, entries |-> <<>>,
                 mode |-> 493, source |-> <<>>]
LinkNode(p)  == [kind |-> "symlink", text |-> "", target |-> p, entries |-> <<>>,
                 mode |-> 511, source |-> <<>>]
\* a file a ZipWriter wrote: the entries it holds, and (not on disk: kept to state
\* the properties) the directory it was packed from
ZipNode(es, dir) == [kind |-> "file", text |-> "PK", target |-> <<>>, entries |-> es,
                     mode |-> 420, source |-> dir]
IsZipNode(n) == n.kind = "file" /\ n.text = "PK"

NoPath == [ok |-> FALSE, path |-> <<>>]

MaxLinks == 3    \* symbolic links followed in one resolution

\* the path `rest` under the resolved directory `done`, symbolic links followed
RECURSIVE Canon(_, _, _, _)
Canon(f, done, rest, fuel) ==
    IF rest = <<>> THEN [ok |-> TRUE, path |-> done]
    ELSE LET nxt == Append(done, Head(rest)) IN
         IF nxt \notin DOMAIN f THEN NoPath
         ELSE IF f[nxt].kind = "symlink"
              THEN IF fuel = 0 THEN NoPath
                   ELSE Canon(f, <<>>, f[nxt].target \o Tail(rest), fuel - 1)
              ELSE Canon(f, nxt, Tail(rest), fuel)

\* Path::canonicalize, and what fs::metadata / File::open / Path::is_dir look at
canonicalize(f, p) == Canon(f, <<>>, p, MaxLinks)

\* Path::is_dir: follows symbolic links, false when the path does not resolve
is_dir(f, p) ==
    LET r == canonicalize(f, p) IN r.ok /\ f[r.path].kind = "dir"

\* fs::symlink_metadata: the node at p itself, the links of its parent followed
Lstat(f, p) ==
    LET r == canonicalize(f, SubSeq(p, 1, Len(p) - 1))
    IN  f[Append(r.path, p[Len(p)])]

\* Path::with_extension(ext): the file name's stem (the name up to its last dot;
\* the whole name when it has no dot or only a leading one), then ".", then ext
with_extension(p, ext) ==
    LET name == p[Len(p)]
        stem == IF Len(name) = 1 \/ (Len(name) = 2 /\ name[1] = "")
                THEN name
                ELSE SubSeq(name, 1, Len(name) - 1)
    IN  SubSeq(p, 1, Len(p) - 1) \o << stem \o <<ext>> >>

\* component.to_str(): None for a name that is not UTF-8
NonUtf8 == { <<"caf\\xE9">> }

RECURSIVE JoinWith(_, _)
JoinWith(parts, sep) ==
    IF Len(parts) = 1 THEN parts[1]
    ELSE parts[1] \o sep \o JoinWith(Tail(parts), sep)

\* a file name as text
NameText(name) == JoinWith(name, ".")

\* the components joined by the separator of a platform that uses "\"
join_backslash(rel, sep) == JoinWith([i \in 1..Len(rel) |-> NameText(rel[i])], "\\")

\* rel_path.iter().map(to_str).collect::<Vec<_>>().join(sep)
join(rel, sep) == JoinWith([i \in 1..Len(rel) |-> NameText(rel[i])], sep)

(***************************************************************************)
(* WalkDir::new(dir).contents_first(false).follow_links(true)              *)
(***************************************************************************)
\* the names read_dir lists in the directory rp, in the order `order` gives
Listing(f, rp, order) ==
    SelectSeq(order, LAMBDA n : Append(rp, n) \in DOMAIN f)

HasErr(items) == items # <<>> /\ items[Len(items)].kind = "Err"

RECURSIVE Visit(_, _, _, _)
RECURSIVE WalkList(_, _, _, _, _)

\* what the iterator yields for the entry at path p and below it: a symbolic link
\* is followed (an error when it is broken, or leads to a directory the walk is
\* inside of), the entry is yielded, then a directory's contents
Visit(f, p, ancestors, order) ==
    LET r == canonicalize(f, p) IN
    IF ~r.ok THEN << Err("walkdir: IO error: No such file or directory") >>
    ELSE IF Lstat(f, p).kind = "symlink" /\ f[r.path].kind = "dir" /\ r.path \in ancestors
    THEN << Err("walkdir: File system loop found") >>
    ELSE IF f[r.path].kind = "dir"
         THEN << Ok(p) >> \o WalkList(f, p, Listing(f, r.path, order),
                                      ancestors \cup {r.path}, order)
         ELSE << Ok(p) >>

\* the entries of one directory, one after the other, until the first error
WalkList(f, p, names, ancestors, order) ==
    IF names = <<>> THEN <<>>
    ELSE LET v == Visit(f, Append(p, Head(names)), ancestors, order) IN
         IF HasErr(v) THEN v
         ELSE v \o WalkList(f, p, Tail(names), ancestors, order)

\* the root is a directory (create_archive checked it) and no symbolic link
\* (its path is canonical)
WalkDir(f, dir, order) == Visit(f, dir, {}, order)

(***************************************************************************)
(* create_zip                                                              *)
(***************************************************************************)
\* create_options (unix): the mode bits of entry.metadata(), which follows links
\* in a walk that follows links
create_options(f, p) == f[canonicalize(f, p).path].mode

\* the loop of create_zip over the walk's items: the entries written, and the
\* error that ended the loop early, if any
RECURSIVE write_entries(_, _, _, _)
write_entries(f, dir, items, written) ==
    IF items = <<>> THEN [result |-> Ok("walked"), entries |-> written]
    ELSE LET it == Head(items) IN
         IF it.kind = "Err"
         THEN [result |-> Err("Walk failed while trying to create a zip"), entries |-> written]
         ELSE IF it.value = dir
         THEN write_entries(f, dir, Tail(items), written)
         ELSE LET rel_path == SubSeq(it.value, Len(dir) + 1, Len(it.value)) IN
              IF \E i \in 1..Len(rel_path) : rel_path[i] \in NonUtf8
              THEN [result |-> Err("Failed to interpreter relative path component as utf8"),
                    entries |-> written]
              ELSE LET entry_name == join(rel_path, "/")
                       options == create_options(f, it.value)
                       entry == IF is_dir(f, it.value)
                                THEN [name |-> entry_name, kind |-> "dir",
                                      text |-> "", mode |-> options]
                                ELSE [name |-> entry_name, kind |-> "file",
                                      text |-> f[canonicalize(f, it.value).path].text,
                                      mode |-> options]
                   IN  write_entries(f, dir, Tail(items), Append(written, entry))

\* the file system with the node n at path p
Put(f, p, n) == [q \in DOMAIN f \cup {p} |-> IF q = p THEN n ELSE f[q]]

create_zip(f, dir, order) ==
    LET zip_path == with_extension(dir, "zip") IN
    IF zip_path \in DOMAIN f
    THEN [fs |-> f, zip_path |-> zip_path,
          result |-> Err("Failed to open zip for packing dir into: File exists")]
    ELSE LET created == Put(f, zip_path, ZipNode(<<>>, dir))
             w == write_entries(created, dir, WalkDir(created, dir, order), <<>>)
         IN  [fs |-> Put(f, zip_path, ZipNode(w.entries, dir)), zip_path |-> zip_path,
              result |-> IF w.result.kind = "Ok" THEN Ok(zip_path) ELSE w.result]

(***************************************************************************)
(* create_archive                                                          *)
(***************************************************************************)
NoArchiveType == [type |-> "None", compression |-> "-"]

\* what a call did: the file system it left, the canonical directory and the zip
\* path it computed (<<>>: none), and its result
Outcome(f, directory, zip_path, result) ==
    [fs |-> f, directory |-> directory, zip_path |-> zip_path, result |-> result]

create_archive(f, dir, name, maybe_archive_type, order) ==
    LET archive_type == IF maybe_archive_type = NoArchiveType THEN Zip
                        ELSE maybe_archive_type
        directory == canonicalize(f, Append(dir, name))
    IN  IF ~directory.ok
        THEN Outcome(f, <<>>, <<>>,
                     Err("Cannot create an archive: Directory does not exist"))
        ELSE IF ~is_dir(f, directory.path)
        THEN Outcome(f, directory.path, <<>>, Err("Cannot create an archive: is a file."))
        ELSE CASE archive_type = Zip ->
                    LET z == create_zip(f, directory.path, order) IN
                    Outcome(z.fs, directory.path, z.zip_path,
                            IF z.result.kind = "Ok"
                            THEN Ok([path |-> z.result.value, archive_type |-> Zip])
                            ELSE z.result)
               [] archive_type = Tar ->
                    Outcome(f, directory.path, <<>>,
                            Panic("not yet implemented: tar archive support"))
               [] OTHER ->
                    Outcome(f, directory.path, <<>>,
                            Panic("not yet implemented: compressed tar archive support"))

(***************************************************************************)
(* The file systems the packer is run on: a base directory /b holding the  *)
(* source directories app, v1.0 and v1.1, a plain file and a link to app.  *)
(***************************************************************************)
MaxCalls == 2     \* create_archive calls in one run

Base  == << <<"b">> >>
App   == <<"app">>
V10   == <<"v1", "0">>
V11   == <<"v1", "1">>
Plain == <<"plain", "txt">>
Lnk   == <<"lnk">>
Nope  == <<"nope">>

A == <<"a">>
F == <<"f", "txt">>
G == <<"g">>
L == <<"l">>
X == <<"caf\\xE9">>

TreeNames == {A, F, G, L, X}

\* the orders read_dir may list names in: the rotations of one order of the
\* names and of its reverse, which list the (at most three) names of every
\* directory below in each of their orders
NameOrder == <<A, F, G, L, X>>

Rotated(o, k) == [i \in 1..Len(o) |-> o[((i + k - 1) % Len(o)) + 1]]

Reversed(o) == [i \in 1..Len(o) |-> o[Len(o) + 1 - i]]

Orders ==
    { Rotated(NameOrder, k) : k \in 0..(Len(NameOrder) - 1) }
        \cup { Rotated(Reversed(NameOrder), k) : k \in 0..(Len(NameOrder) - 1) }

InApp(rel) == Base \o <<App>> \o rel

PlainTree ==
    { <<InApp(<<A>>), DirNode>>, <<InApp(<<A, F>>), FileNode("hi")>>,
      <<InApp(<<G>>), ExecNode("bye")>> }

Tree(t) ==
    CASE t = "empty"    -> {}
      [] t = "plain"    -> PlainTree
      [] t = "dirlink"  -> PlainTree \cup { <<InApp(<<L>>), LinkNode(InApp(<<A>>))>> }
      [] t = "filelink" -> PlainTree \cup { <<InApp(<<L>>), LinkNode(InApp(<<G>>))>> }
      [] t = "outside"  -> PlainTree \cup { <<InApp(<<L>>), LinkNode(Base \o <<V10>>)>> }
      [] t = "loop"     -> PlainTree \cup { <<InApp(<<A, L>>), LinkNode(InApp(<<>>))>> }
      [] t = "dangling" -> PlainTree \cup { <<InApp(<<L>>), LinkNode(InApp(<<Nope>>))>> }
      [] t = "nonutf8"  -> PlainTree \cup { <<InApp(<<A, X>>), FileNode("x")>> }

Trees == {"empty", "plain", "dirlink", "filelink", "outside", "loop", "dangling", "nonutf8"}

BaseTree ==
    { <<Base, DirNode>>, <<Base \o <<App>>, DirNode>>,
      <<Base \o <<V10>>, DirNode>>, <<Base \o <<V10, G>>, FileNode("one")>>,
      <<Base \o <<V11>>, DirNode>>, <<Base \o <<V11, G>>, FileNode("two")>>,
      <<Base \o <<Plain>>, FileNode("text")>>,
      <<Base \o <<Lnk>>, LinkNode(Base \o <<App>>)>> }

FsOf(pairs) ==
    [ p \in { pr[1] : pr \in pairs } |-> (CHOOSE pr \in pairs : pr[1] = p)[2] ]

CallNames == {App, V10, V11, Plain, Lnk, Nope}

\* last.before, last.after: the file system when the call was made and when it
\* returned
NoCall ==
    [name |-> <<>>, archive_type |-> NoArchiveType, directory |-> <<>>,
     zip_path |-> <<>>, result |-> NotCalled, before |-> <<>>, after |-> <<>>]

InitPack ==
    /\ \E t \in Trees : fs = FsOf(BaseTree \cup Tree(t))
    /\ last = NoCall
    /\ ncalls = 0

IdlePack == fs = <<>> /\ last = NoCall /\ ncalls = 0

\* a caller that holds no earlier result runs
\* create_archive(/b, name, maybe_archive_type); read_dir lists directories in
\* some order
CreateArchive ==
    /\ ncalls < MaxCalls
    /\ last.result.kind = "none"
    /\ \E name \in CallNames, t \in {NoArchiveType} \cup ArchiveType :
        \E order \in (IF t \in {NoArchiveType, Zip} THEN Orders
                      ELSE {CHOOSE o \in Orders : TRUE}) :
            LET r == create_archive(fs, Base, name, t, order) IN
            /\ fs' = r.fs
            /\ last' = [name |-> name, archive_type |-> t, directory |-> r.directory,
                        zip_path |-> r.zip_path, result |-> r.result,
                        before |-> fs, after |-> r.fs]
    /\ ncalls' = ncalls + 1
    /\ UNCHANGED <<data_runs, shape, maximum_trailer_size, pc, zres, lres, codec>>

\* between calls somebody rewrites a file of the source directory app
ModifySource ==
    /\ last.result.kind = "none"
    /\ InApp(<<G>>) \in DOMAIN fs
    /\ fs[InApp(<<G>>)].text = "bye"
    /\ fs' = [fs EXCEPT ![InApp(<<G>>)].text = "bye!"]
    /\ UNCHANGED <<last, ncalls>>
    /\ UNCHANGED <<data_runs, shape, maximum_trailer_size, pc, zres, lres, codec>>

\* between calls somebody removes an archive
RemoveOutput ==
    /\ last.result.kind = "none"
    /\ \E p \in DOMAIN fs :
        /\ IsZipNode(fs[p])
        /\ fs' = [q \in DOMAIN fs \ {p} |-> fs[q]]
    /\ UNCHANGED <<last, ncalls>>
    /\ UNCHANGED <<data_runs, shape, maximum_trailer_size, pc, zres, lres, codec>>

(***************************************************************************)
(* Properties of the packer                                                *)
(***************************************************************************)
Called == last.result.kind # "none"

\* the call was made on an existing directory
OnDirectory == Called /\ last.directory # <<>> /\ is_dir(last.before, last.directory)

TarTypes == {Tar} \cup { CompressedTar(c) : c \in Compression }

\* C5: create_archive on an existing directory with Tar or CompressedTar(c) returns
\* an error value (the process is not aborted), creates no output file and
\* writes no zip.
C5_TarFailsWithErrorValue ==
    (OnDirectory /\ last.archive_type \in TarTypes) =>
        /\ last.result.kind = "Err"
        /\ last.after = last.before

\* the archives a Zip call packed from the directory of the last call, as they
\* were when the last call was made
EarlierOutputs ==
    { p \in DOMAIN last.before :
        IsZipNode(last.before[p]) /\ last.before[p].source = last.directory }

\* C7: once a Zip call has created the output file of a source directory, every
\* later create_archive call on that directory made while the file exists returns
\* an error and leaves the file's contents unchanged.
C7_NoOverwrite ==
    (OnDirectory /\ EarlierOutputs # {}) =>
        /\ last.result.kind = "Err"
        /\ \A p \in EarlierOutputs :
              p \in DOMAIN last.after /\ last.after[p] = last.before[p]

\* the same for the calls that reach create_zip (Zip, or no archive type given):
\* create_new(true) refuses the existing file
NoOverwriteByZip ==
    (OnDirectory /\ EarlierOutputs # {} /\ last.archive_type \in {NoArchiveType, Zip}) =>
        /\ last.result.kind = "Err"
        /\ \A p \in EarlierOutputs :
              p \in DOMAIN last.after /\ last.after[p] = last.before[p]

\* the path of a directory with ".zip" appended to its name
DirZip(dir) == SubSeq(dir, 1, Len(dir) - 1) \o << dir[Len(dir)] \o <<"zip">> >>

\* the directories beside dir (same parent, another name)
Siblings(f, dir) ==
    { d \in DOMAIN f :
        /\ f[d].kind = "dir" /\ d # dir /\ Len(d) = Len(dir)
        /\ SubSeq(d, 1, Len(d) - 1) = SubSeq(dir, 1, Len(dir) - 1) }

\* C8: the zip output path is the canonical source directory path with ".zip"
\* appended, whatever the directory's name, so that no other directory of the
\* same parent gets the same output path.
C8_ZipPathAppended ==
    (Called /\ last.zip_path # <<>>) =>
        /\ last.zip_path = DirZip(last.directory)
        /\ \A d \in Siblings(last.before, last.directory) :
              with_extension(d, "zip") # last.zip_path

MaxDepth == 3    \* components of the relative paths looked at

\* the paths relative to dir, of at most k components, that resolve with symbolic
\* links followed
RECURSIVE ReachableRel(_, _, _)
ReachableRel(f, dir, k) ==
    IF k = 0 THEN {}
    ELSE LET shorter == ReachableRel(f, dir, k - 1)
             below == { Append(r, n) : r \in { q \in shorter : is_dir(f, dir \o q) },
                                       n \in TreeNames }
         IN  { <<n>> : n \in { m \in TreeNames : canonicalize(f, Append(dir, m)).ok } }
                 \cup { r \in below : canonicalize(f, dir \o r).ok }

RECURSIVE SlashName(_)
SlashName(rel) ==
    IF Len(rel) = 1 THEN NameText(rel[1])
    ELSE SlashName(SubSeq(rel, 1, Len(rel) - 1)) \o "/" \o NameText(rel[Len(rel)])

\* C9: a successful create_zip writes exactly one entry per non-root path
\* reachable from the root with symbolic links followed, none for the root; an
\* entry's name is its relative path joined by "/"; a directory's entry comes
\* before the entries beneath it; a path that resolves to a directory is a
\* directory entry without content, any other a file entry with the content of
\* the resolved file.
C9_ZipEntries ==
    (Called /\ last.result.kind = "Ok") =>
        LET f == last.before
            dir == last.directory
            es == last.after[last.result.value.path].entries
            R == ReachableRel(f, dir, MaxDepth)
            at(r) == CHOOSE i \in 1..Len(es) : es[i].name = SlashName(r)
        IN  /\ Len(es) = Cardinality(R)
            /\ \A r \in R : \E i \in 1..Len(es) : es[i].name = SlashName(r)
            /\ \A i \in 1..Len(es) : es[i].name # ""
            /\ \A r \in R :
                  /\ \A k \in 1..(Len(r) - 1) : at(SubSeq(r, 1, k)) < at(r)
                  /\ IF is_dir(f, dir \o r)
                     THEN es[at(r)].kind = "dir" /\ es[at(r)].text = ""
                     ELSE /\ es[at(r)].kind = "file"
                          /\ es[at(r)].text = f[canonicalize(f, dir \o r).path].text

\* C9 witness: a tree with a link to a directory is packed; the link is written
\* as a directory and the file beneath it as a file with its content
C9_Witness ==
    /\ Called /\ last.result.kind = "Ok" /\ last.directory = Base \o <<App>>
    /\ LET es == last.after[last.result.value.path].entries IN
       /\ Len(es) = 5
       /\ \E i, j \in 1..Len(es) :
             /\ i < j
             /\ es[i].name = "l" /\ es[i].kind = "dir"
             /\ es[j].name = "l/f.txt" /\ es[j].kind = "file" /\ es[j].text = "hi"

\* the caller is done with what the call returned
DropResult ==
    /\ last.result.kind # "none"
    /\ last' = NoCall
    /\ UNCHANGED <<fs, ncalls>>
    /\ UNCHANGED <<data_runs, shape, maximum_trailer_size, pc, zres, lres, codec>>

NextPack == CreateArchive \/ DropResult \/ ModifySource \/ RemoveOutput


Init == InitLocator /\ IdleCodec /\ IdlePack
Next == EndOfZip \/ Load
Spec == Init /\ [][Next]_vars

SpecPackInit == IdleLocator /\ IdleCodec /\ InitPack
SpecPack == SpecPackInit /\ [][NextPack]_vars

SpecCodecInit == IdleLocator /\ InitCodec /\ IdlePack
SpecCodec == SpecCodecInit /\ [][NextCodec]_vars

====
